---- MODULE Spec2Model ----
(***************************************************************************)
(* A model of clpfd.py: the symbolic expression algebra (Expression,       *)
(* Variable, Variables), the process-wide name counter, and the Solver     *)
(* front-end (add_constraint, SolverPulp.solve and its lowering).          *)
(*                                                                         *)
(* Python values are tagged records:                                       *)
(*   None                  [kind |-> "none"]                               *)
(*   int / numpy integer   [kind |-> "int", np |-> BOOLEAN, val |-> k]     *)
(*   Variable object       [kind |-> "var", id |-> i]   (heap[i] holds     *)
(*                         its name and domain; `is` compares the id)      *)
(*   Expression(op, l, r)  [kind |-> "expr", op |-> op, values |-> <<l,r>>]*)
(*   Variables container   [kind |-> "array", shape |-> s, flat |-> f]     *)
(* An optional integer (DomainRange.min/.max) is <<>> for None and <<n>>.  *)
(***************************************************************************)
EXTENDS Integers, Sequences, FiniteSets, TLC

VARIABLES
    heap,        \* the Variable objects constructed so far: id -> [name, domain]
    varidx,      \* Variable._varidx, the process-wide name counter
    handed,      \* every auto-generated name handed out so far, in order
    arr,         \* the Variables container the caller holds (or None)
    res,         \* the result of the caller's last container operation
    fresh,       \* TRUE while the container has not been operated in place
    conststore,  \* Solver._conststore
    variables,   \* Solver._variables, in insertion order (ids of the values)
    lpvars,      \* SolverPulp._lpvars, in insertion order
    prob,        \* the constraints handed to the backend problem of the last solve
    ret,         \* how the last Solver call ended
    lastCall,    \* the last Solver call and its argument
    prevCall,    \* the Solver call before the last one
    ncalls,      \* number of Solver calls made
    pc,          \* per thread: position inside Variable.new_name
    tname,       \* per thread: the local `name` of new_name
    tload,       \* per thread: the value of _varidx loaded by `+= 1`
    tdone,       \* per thread: completed new_name calls
    e1, e2,      \* operands of the expression under construction
    esum,        \* e1 + e2
    evars        \* esum.variables()

heapVars   == <<heap, varidx, handed>>
arrVars    == <<arr, res, fresh>>
solverVars == <<conststore, variables, lpvars, prob, ret, lastCall, prevCall, ncalls>>
threadVars == <<pc, tname, tload, tdone>>
exprVars   == <<e1, e2, esum, evars>>
vars == <<heap, varidx, handed, arr, res, fresh, conststore, variables, lpvars,
          prob, ret, lastCall, prevCall, ncalls, pc, tname, tload, tdone, e1, e2, esum, evars>>

-----------------------------------------------------------------------------
(* Bounds of the exploration *)
MaxIdx     == 3   \* new_name calls explored
MaxHeap    == 5   \* Variable objects constructed
MaxCalls   == 3   \* Solver calls explored
MaxThreadCalls == 2   \* new_name calls per thread
MaxDepth   == 1   \* nesting of the Expressions built in place

-----------------------------------------------------------------------------
(* Python values *)
None      == [kind |-> "none"]
PyInt(k)  == [kind |-> "int", np |-> FALSE, val |-> k]
NpInt(k)  == [kind |-> "int", np |-> TRUE, val |-> k]
VarRef(i) == [kind |-> "var", id |-> i]

\* isinstance(v, (Expression, int, np.integer))
IsOperand(v) == v.kind \in {"var", "expr", "int"}

\* isinstance(v, Expression)
IsExpression(v) == v.kind \in {"var", "expr"}

\* Expression.__init__: op and operands are stored; the assertion rejects
\* any operand that is not an Expression or an integer.
Expression(op, l, r) ==
    IF IsOperand(l) /\ IsOperand(r)
    THEN [kind |-> "expr", op |-> op, values |-> <<l, r>>]
    ELSE [kind |-> "raised", exc |-> "AssertionError"]

\* Expression.__add__ / __radd__ / __eq__
add(self, value)  == Expression("+", self, value)
radd(self, value) == Expression("+", value, self)
eq(self, value)   == Expression("=", self, value)

\* sum(lists, [])
RECURSIVE SumLists(_)
SumLists(ls) == IF ls = <<>> THEN <<>> ELSE Head(ls) \o SumLists(Tail(ls))

\* Expression.variables(): a Variable is its own list; a node concatenates
\* the lists of its operands that are Expressions
RECURSIVE Expression_variables_first(_)
Expression_variables_first(self) ==
    IF self.kind = "var" THEN <<self>>
    ELSE IF IsExpression(self.values[1])
    THEN Expression_variables_first(self.values[1])
    ELSE <<>>
RECURSIVE Expression_variables(_)
Expression_variables(self) ==
    IF self.kind = "var" THEN <<self>>
    ELSE LET sel == SelectSeq(self.values, IsExpression)
         IN SumLists([i \in 1..Len(sel) |-> Expression_variables(sel[i])])

\* DomainRange(low, up)
DomainRange(low, up) == [min |-> low, max |-> up]

\* "var_%d" % Variable._varidx
NameOfIdx(i) == "var_" \o ToString(i)

\* Variable.new_name as a function of the counter: the name returned and
\* the counter afterwards.
new_name_skip(idx) == [name |-> NameOfIdx(idx), varidx |-> idx]
new_name(idx) == [name |-> NameOfIdx(idx), varidx |-> idx + 1]

\* "%s_%d" % (name_prefix, i)
ElementName(prefix, i) == prefix \o "_" \o ToString(i)

\* str(e): Variable.__str__ is the name, Expression.__str__ is infix
RECURSIVE Str(_, _)
Str(h, e) ==
    IF e.kind = "var" THEN h[e.id].name
    ELSE IF e.kind = "int" THEN ToString(e.val)
    ELSE Str(h, e.values[1]) \o " " \o e.op \o " " \o Str(h, e.values[2])

-----------------------------------------------------------------------------
(* Construction of Variable objects and Variables containers *)

\* range(start, stop, step)
Range(start, stop, step) == [kind |-> "range", start |-> start, stop |-> stop, step |-> step]

\* DomainRange.fromrange: only unit-step ranges are accepted
fromrange(r) ==
    IF r.step = 1 THEN DomainRange(<<r.start>>, <<r.stop>>)
    ELSE [kind |-> "raised", exc |-> "AssertionError"]

\* Variable.__init__: the domain given, defaulted or converted
InitDomain(domain) ==
    IF domain = None THEN DomainRange(<<>>, <<>>)
    ELSE IF domain.kind = "range" THEN fromrange(domain)
    ELSE domain

\* The domain arguments the caller passes
DomainArgs == {None, Range(0, 2, 1)}

\* len(arr.flat) of an array of the given shape
RECURSIVE Size(_)
Size(shape) == IF shape = <<>> THEN 1 ELSE Head(shape) * Size(Tail(shape))

\* The shapes the caller asks for
Shapes == {<<2>>, <<2, 2>>, <<1, 3>>}

\* The integer scalars the caller uses with a container
Scalars == {0, 1, -1}

\* Variables.__new__ with an explicit prefix: the element Variable objects,
\* named "<prefix>_<flat index>", appended to the heap in flat order.
ElementObjects(prefix, domain, n) ==
    [i \in 1..n |-> [name |-> ElementName(prefix, i - 1), domain |-> InitDomain(domain)]]

Variables_new(h, shape, domain, prefix) ==
    [heap |-> h \o ElementObjects(prefix, domain, Size(shape)),
     arr  |-> [kind |-> "array", shape |-> shape,
               flat |-> [i \in 1..Size(shape) |-> VarRef(Len(h) + i)]]]

\* Variable(): Variable.__init__ with name=None draws the name from the counter
NewVariable ==
    /\ varidx < MaxIdx /\ Len(heap) < MaxHeap
    /\ \E domain \in DomainArgs :
         LET nn == new_name(varidx) IN
         /\ heap' = Append(heap, [name |-> nn.name, domain |-> InitDomain(domain)])
         /\ varidx' = nn.varidx
         /\ handed' = Append(handed, nn.name)
    /\ UNCHANGED <<arrVars, solverVars, threadVars, exprVars>>

\* A direct call of Variable.new_name()
CallNewName ==
    /\ varidx < MaxIdx
    /\ LET nn == new_name(varidx) IN
         /\ varidx' = nn.varidx
         /\ handed' = Append(handed, nn.name)
    /\ UNCHANGED <<heap, arrVars, solverVars, threadVars, exprVars>>

\* Variables(shape): the prefix defaults to a fresh auto-generated name; the
\* container replaces the one the caller held.
NewVariables ==
    /\ varidx < MaxIdx
    /\ \E shape \in Shapes, domain \in DomainArgs :
         LET nn == new_name(varidx)
             v  == Variables_new(heap, shape, domain, nn.name) IN
         /\ Len(v.heap) <= MaxHeap
         /\ heap' = v.heap
         /\ arr' = v.arr
         /\ varidx' = nn.varidx
         /\ handed' = Append(handed, nn.name) \o
                        [i \in 1..Size(shape) |-> v.heap[Len(heap) + i].name]
    /\ res' = None /\ fresh' = TRUE
    /\ UNCHANGED <<solverVars, threadVars, exprVars>>

\* The caller drops the container and the Variable objects of the heap;
\* nothing gives a name back to the counter.
Discard ==
    /\ heap # <<>>
    /\ heap' = <<>> /\ arr' = None /\ res' = None /\ fresh' = FALSE
    /\ UNCHANGED <<varidx, handed, solverVars, threadVars, exprVars>>

-----------------------------------------------------------------------------
(* The ufunc override of Variables *)

\* np.broadcast(a, k) of an array with a scalar: the shape is the array's,
\* and iteration pairs each element, in flat order, with the scalar as a
\* numpy integer.
BroadcastShape(a, k) == a.shape
BroadcastPairs(a, k) == [p \in 1..Len(a.flat) |-> <<a.flat[p], NpInt(k)>>]

\* The default object-dtype loop of np.add: Python's a + b per element, the
\* scalar cast to an object (a Python int).
DefaultAddIdentity(a, k) == a.flat
DefaultAdd(a, k) == [p \in 1..Len(a.flat) |-> add(a.flat[p], PyInt(k))]

\* Variables._call_ufunc: np.equal builds an object array of a == b over the
\* broadcast; anything else is numpy's default. `out` is the flat content of
\* the output buffer when the caller gave one, else None.
EqualAsBoolean(a, k) ==
    [kind |-> "array", shape |-> BroadcastShape(a, k),
     flat |-> [p \in 1..Len(a.flat) |-> [kind |-> "bool", val |-> FALSE]]]
EqualOverride(a, k) ==
    [kind |-> "array", shape |-> BroadcastShape(a, k),
     flat |-> [p \in 1..Len(a.flat) |->
                 eq(BroadcastPairs(a, k)[p][1], BroadcastPairs(a, k)[p][2])]]

call_ufunc(ufunc, a, k) ==
    IF ufunc = "equal" THEN EqualOverride(a, k)
    ELSE [kind |-> "array", shape |-> a.shape, flat |-> DefaultAdd(a, k)]

\* Variables.__array_ufunc__: any exception inside is printed and the call
\* yields None; otherwise the result is viewed as a Variables container.
Raised(a) == \E p \in 1..Len(a.flat) : a.flat[p].kind = "raised"
array_ufunc(ufunc, a, k) ==
    LET results == call_ufunc(ufunc, a, k)
    IN IF Raised(results) THEN None ELSE results

\* Nesting depth of an expression tree (a leaf is 0)
RECURSIVE Depth(_)
Depth(e) ==
    IF e.kind # "expr" THEN 0
    ELSE LET a == Depth(e.values[1])
             b == Depth(e.values[2])
         IN 1 + (IF a >= b THEN a ELSE b)

\* container += k: np.add with out=(container,), so the container's buffer
\* receives the results.
InPlaceAdd ==
    /\ arr # None
    /\ Depth(arr.flat[1]) < MaxDepth
    /\ \E k \in Scalars :
         LET r == array_ufunc("add", arr, k) IN
         /\ arr' = r
         /\ res' = [kind |-> "call", op |-> "+=", k |-> k, before |-> arr, value |-> r]
    /\ fresh' = FALSE
    /\ UNCHANGED <<heapVars, solverVars, threadVars, exprVars>>

\* container == k: np.equal without an output buffer
EqualScalar ==
    /\ arr # None
    /\ \E k \in Scalars :
         res' = [kind |-> "call", op |-> "==", k |-> k, before |-> arr,
                 value |-> array_ufunc("equal", arr, k)]
    /\ UNCHANGED <<arr, fresh, heapVars, solverVars, threadVars, exprVars>>

-----------------------------------------------------------------------------
(* Initial values of each group of variables *)
NoCall == [op |-> "none", c |-> None]

HeapInit   == heap = <<>> /\ varidx = 0 /\ handed = <<>>
ArrInit    == arr = None /\ res = None /\ fresh = FALSE
SolverInit == /\ conststore = <<>> /\ variables = <<>> /\ lpvars = <<>> /\ prob = <<>>
              /\ ret = "none" /\ lastCall = NoCall /\ prevCall = NoCall /\ ncalls = 0
Threads    == {1, 2}
ThreadInit == /\ pc = [t \in Threads |-> "idle"] /\ tname = [t \in Threads |-> ""]
              /\ tload = [t \in Threads |-> 0] /\ tdone = [t \in Threads |-> 0]
ExprInit   == e1 = None /\ e2 = None /\ esum = None /\ evars = <<>>

-----------------------------------------------------------------------------
(* Sequential construction: names, containers and their elementwise operations *)
InitNames == HeapInit /\ ArrInit /\ SolverInit /\ ThreadInit /\ ExprInit
NextNames == NewVariable \/ CallNewName \/ NewVariables \/ Discard
                \/ InPlaceAdd \/ EqualScalar
SpecNames == InitNames /\ [][NextNames]_vars

C6_EqualBuildsExpressions ==
    (res.kind = "call" /\ res.op = "==" /\ fresh)
        => /\ res.value.kind = "array" /\ res.value.shape = arr.shape
           /\ Len(res.value.flat) = Size(arr.shape)
           /\ \A p \in 1..Len(res.value.flat) :
                LET x == res.value.flat[p] IN
                /\ x.kind = "expr" /\ x.op = "="
                /\ x.values[1] = arr.flat[p] /\ arr.flat[p].kind = "var"
                /\ x.values[2].kind = "int" /\ x.values[2].val = res.k
                /\ Str(heap, x) = heap[arr.flat[p].id].name \o " = " \o ToString(res.k)

C6_Witness ==
    /\ res.kind = "call" /\ res.op = "==" /\ fresh /\ res.k = 0
    /\ arr.shape = <<2, 2>>
    /\ Str(heap, res.value.flat[4]) = "var_0_3 = 0"

\* C7: the auto-generated names handed out so far are pairwise distinct,
\* and the counter never decreases and grows with every name it gives.
NamesDistinct(ns) == \A i, j \in 1..Len(ns) : i # j => ns[i] # ns[j]
C7_NamesDistinct ==
    /\ [] NamesDistinct(handed)
    /\ [][varidx' >= varidx /\ (handed' # handed => varidx' > varidx)]_vars

C7_Witness ==
    /\ Len(handed) >= 6 /\ varidx >= 3 /\ heap = <<>>
    /\ \E i \in 1..Len(handed) : handed[i] = "var_1_0"

-----------------------------------------------------------------------------
(* Concurrent callers of Variable.new_name.  The method is two statements,  *)
(* and `Variable._varidx += 1` is itself a load followed by a store; no     *)
(* lock is taken, so threads interleave between any two of these steps.     *)

\* name = "var_%d" % Variable._varidx
ThreadFormat(t) ==
    /\ pc[t] = "idle" /\ tdone[t] < MaxThreadCalls
    /\ tname' = [tname EXCEPT ![t] = NameOfIdx(varidx)]
    /\ pc' = [pc EXCEPT ![t] = "load"]
    /\ UNCHANGED <<heapVars, tload, tdone, arrVars, solverVars, exprVars>>

\* Variable._varidx += 1, the load
ThreadLoad(t) ==
    /\ pc[t] = "load"
    /\ tload' = [tload EXCEPT ![t] = varidx]
    /\ pc' = [pc EXCEPT ![t] = "store"]
    /\ UNCHANGED <<heapVars, tname, tdone, arrVars, solverVars, exprVars>>

\* Variable._varidx += 1, the store
ThreadStore(t) ==
    /\ pc[t] = "store"
    /\ varidx' = tload[t] + 1
    /\ pc' = [pc EXCEPT ![t] = "return"]
    /\ UNCHANGED <<heap, handed, tname, tload, tdone, arrVars, solverVars, exprVars>>

\* return name
ThreadReturn(t) ==
    /\ pc[t] = "return"
    /\ handed' = Append(handed, tname[t])
    /\ tdone' = [tdone EXCEPT ![t] = @ + 1]
    /\ pc' = [pc EXCEPT ![t] = "idle"]
    /\ UNCHANGED <<heap, varidx, tname, tload, arrVars, solverVars, exprVars>>

InitThreads == HeapInit /\ ArrInit /\ SolverInit /\ ThreadInit /\ ExprInit
NextThreads == \E t \in Threads :
                  ThreadFormat(t) \/ ThreadLoad(t) \/ ThreadStore(t) \/ ThreadReturn(t)
SpecThreads == InitThreads /\ [][NextThreads]_vars

\* C9: under any interleaving of concurrent new_name calls no two calls
\* return the same name, and no increment is lost: once every call has
\* returned, the counter equals the number of calls made.
C9_AtomicCounter ==
    /\ NamesDistinct(handed)
    /\ (\A t \in Threads : pc[t] = "idle") => varidx = Len(handed)

-----------------------------------------------------------------------------
(* Expression trees and Expression.variables() *)

\* The Variable objects the caller constructed with explicit names and
\* domains: Variable(range(0, 2), "a"), Variable(range(0, 2), "b"), a second
\* object named "a", and Variable(name="c") with the default domain.
Pool == << [name |-> "a", domain |-> InitDomain(Range(0, 2, 1))],
           [name |-> "b", domain |-> InitDomain(Range(0, 2, 1))],
           [name |-> "a", domain |-> InitDomain(Range(0, 3, 1))],
           [name |-> "c", domain |-> InitDomain(None)] >>

PoolVars == {VarRef(i) : i \in 1..Len(Pool)}
Atoms == PoolVars \cup {PyInt(1)}

\* The Expressions of depth at most one the caller can build from the pool
\* (an operator applied to two integers is plain arithmetic, not a tree)
Exprs1 == PoolVars \cup
          {Expression(op, l, r) : op \in {"+", "="},
                                  l \in PoolVars, r \in Atoms} \cup
          {radd(r, PyInt(1)) : r \in PoolVars}

\* (e1 + e2).variables(), through Expression.__add__
BuildSum ==
    /\ esum = None
    /\ esum' = add(e1, e2)
    /\ evars' = Expression_variables(esum')
    /\ UNCHANGED <<e1, e2, heapVars, arrVars, solverVars, threadVars>>

\* (k + e1).variables() for an integer k, through Expression.__radd__
BuildRsum ==
    /\ esum = None
    /\ esum' = radd(e1, PyInt(1))
    /\ evars' = Expression_variables(esum')
    /\ UNCHANGED <<e1, e2, heapVars, arrVars, solverVars, threadVars>>

InitExpr == /\ heap = Pool /\ varidx = 0 /\ handed = <<>>
            /\ ArrInit /\ SolverInit /\ ThreadInit
            /\ e1 \in Exprs1 /\ e2 \in Exprs1 /\ esum = None /\ evars = <<>>
NextExpr == BuildSum \/ BuildRsum
SpecExpr == InitExpr /\ [][NextExpr]_vars

\* The Variable leaves of a tree, left to right, duplicates kept
RECURSIVE Leaves(_)
Leaves(e) ==
    IF e.kind = "var" THEN <<e>>
    ELSE IF e.kind = "expr" THEN Leaves(e.values[1]) \o Leaves(e.values[2])
    ELSE <<>>

\* C8: (e1 + e2).variables() is e1.variables() followed by e2.variables(),
\* the Variable leaves in left-to-right depth-first order with duplicates
\* kept; a Variable's own variables() is the list holding just itself.
C8_VariablesConcat ==
    /\ (esum # None /\ esum = add(e1, e2))
          => /\ evars = Expression_variables(e1) \o Expression_variables(e2)
             /\ evars = Leaves(e1) \o Leaves(e2)
    /\ e1.kind = "var" => Expression_variables(e1) = <<e1>>

C8_Witness ==
    /\ esum # None /\ esum = add(e1, e2)
    /\ e1 = add(VarRef(1), VarRef(2)) /\ e2 = eq(VarRef(2), VarRef(1))
    /\ evars = <<VarRef(1), VarRef(2), VarRef(2), VarRef(1)>>

-----------------------------------------------------------------------------
(* Solver.add_constraint *)

\* v.name for a Variable object of heap h
NameOf(h, v) == h[v.id].name

\* name in self._variables, and self._variables[name]: the dict is the
\* sequence of the ids of its values, in insertion order
HasName(h, vs, n) == \E i \in 1..Len(vs) : h[vs[i]].name = n
Lookup(h, vs, n)  == vs[CHOOSE i \in 1..Len(vs) : h[vs[i]].name = n]

\* self._variables[v.name] is not v
IsNotAlways(registered, v) == TRUE
IsNotNever(registered, v) == FALSE
IsNot(registered, v) == registered # v.id

\* The registration loop over c.variables(): a new name is registered, a
\* name registered to another object raises, the same object passes.
RECURSIVE RegisterAll(_, _, _)
RegisterAll(h, vs, list) ==
    IF list = <<>> THEN [variables |-> vs, raised |-> FALSE]
    ELSE LET v == Head(list) IN
         IF ~HasName(h, vs, NameOf(h, v))
         THEN RegisterAll(h, Append(vs, v.id), Tail(list))
         ELSE IF IsNot(Lookup(h, vs, NameOf(h, v)), v)
         THEN [variables |-> vs, raised |-> TRUE]
         ELSE RegisterAll(h, vs, Tail(list))

\* Solver.add_constraint on the Solver state s = [conststore, variables, ret].
\* None and numpy integers return at once; a Variables container registers
\* its elements one by one, an exception ending the loop; a Python int has
\* no variables() method; anything else is registered and appended.
RECURSIVE add_constraint(_, _, _), AddEach(_, _, _)
add_constraint(h, s, c) ==
    IF c = None \/ (c.kind = "int" /\ c.np) THEN [s EXCEPT !.ret = "ok"]
    ELSE IF c.kind = "array" THEN AddEach(h, [s EXCEPT !.ret = "ok"], c.flat)
    ELSE IF c.kind = "int" THEN [s EXCEPT !.ret = "AttributeError"]
    ELSE LET r == RegisterAll(h, s.variables, Expression_variables(c)) IN
         IF r.raised
         THEN [s EXCEPT !.variables = r.variables, !.ret = "ValueError"]
         ELSE [conststore |-> Append(s.conststore, c),
               variables  |-> r.variables,
               ret        |-> "ok"]

AddEach(h, s, flat) ==
    IF flat = <<>> THEN s
    ELSE LET s1 == add_constraint(h, s, Head(flat)) IN
         IF s1.ret # "ok" THEN s1 ELSE AddEach(h, s1, Tail(flat))

\* The constraints the caller registers: the no-op values, bare Variables,
\* equalities over the pool (the same object twice, two objects of one
\* name, the unbounded variable), and Variables containers
ConstraintInputs ==
    { None, NpInt(1), PyInt(1),
      VarRef(1), VarRef(3),
      eq(VarRef(1), VarRef(2)),
      eq(VarRef(2), PyInt(1)),
      eq(VarRef(3), VarRef(2)),
      eq(add(VarRef(1), VarRef(2)), PyInt(1)),
      eq(add(VarRef(1), VarRef(1)), VarRef(2)),
      eq(add(VarRef(2), VarRef(1)), VarRef(3)),
      eq(VarRef(4), VarRef(2)),
      [kind |-> "array", shape |-> <<2>>, flat |-> <<VarRef(1), VarRef(2)>>],
      [kind |-> "array", shape |-> <<3>>, flat |-> <<VarRef(2), VarRef(3), VarRef(1)>>],
      [kind |-> "array", shape |-> <<2>>,
       flat |-> <<eq(VarRef(2), NpInt(0)), eq(VarRef(3), NpInt(0))>>] }

AddConstraint ==
    /\ ncalls < MaxCalls
    /\ \E c \in ConstraintInputs :
         LET s == add_constraint(heap, [conststore |-> conststore,
                                        variables |-> variables, ret |-> "ok"], c) IN
         /\ conststore' = s.conststore
         /\ variables' = s.variables
         /\ ret' = s.ret
         /\ lastCall' = [op |-> "add", c |-> c]
    /\ prevCall' = lastCall
    /\ ncalls' = ncalls + 1
    /\ UNCHANGED <<lpvars, prob, heapVars, arrVars, threadVars, exprVars>>

-----------------------------------------------------------------------------
(* SolverPulp.solve and the lowering *)

\* name in self._lpvars, and self._lpvars[name]
HasLpvar(lp, n) == \E i \in 1..Len(lp) : lp[i].name = n
GetLpvar(lp, n) == lp[CHOOSE i \in 1..Len(lp) : lp[i].name = n]

\* pulp.LpVariable(v.name, v.domain.min, v.domain.max - 1, pulp.LpInteger):
\* the backend takes an inclusive upper bound
LpVariable(name, domain) ==
    [kind |-> "lpvar", name |-> name, lowBound |-> domain.min,
     upBound |-> <<domain.max[1] - 1>>, cat |-> "Integer"]

\* SolverPulp._add_lpvar, memoized by name; None - 1 is a TypeError
add_lpvar(h, lp, v) ==
    IF HasLpvar(lp, NameOf(h, v))
    THEN [lpvars |-> lp, raised |-> FALSE, value |-> GetLpvar(lp, NameOf(h, v))]
    ELSE IF h[v.id].domain.max = <<>>
    THEN [lpvars |-> lp, raised |-> TRUE, value |-> None]
    ELSE LET lv == LpVariable(NameOf(h, v), h[v.id].domain)
         IN [lpvars |-> Append(lp, lv), raised |-> FALSE, value |-> lv]

\* SolverPulp._convert_constraint: an integer lowers to itself, a Variable
\* to its backend variable, '+' and '=' to the backend's combination of the
\* lowered operands (left operand first); any other op yields None.
RECURSIVE convert_constraint(_, _, _)
convert_constraint(h, lp, c) ==
    IF c.kind = "int" THEN [lpvars |-> lp, raised |-> FALSE, value |-> c]
    ELSE IF c.kind = "var" THEN add_lpvar(h, lp, c)
    ELSE LET l == convert_constraint(h, lp, c.values[1]) IN
         IF l.raised THEN l
         ELSE LET r == convert_constraint(h, l.lpvars, c.values[2]) IN
              IF r.raised THEN r
              ELSE [lpvars |-> r.lpvars, raised |-> FALSE,
                    value  |-> IF c.op = "+"
                               THEN [kind |-> "lpsum", args |-> <<l.value, r.value>>]
                               ELSE IF c.op = "="
                               THEN [kind |-> "lpeq", args |-> <<l.value, r.value>>]
                               ELSE None]

\* for v in variables: self._add_lpvar(v)
RECURSIVE AddLpvars(_, _, _)
AddLpvars(h, lp, targets) ==
    IF targets = <<>> THEN [lpvars |-> lp, raised |-> FALSE]
    ELSE LET r == add_lpvar(h, lp, Head(targets)) IN
         IF r.raised THEN [lpvars |-> r.lpvars, raised |-> TRUE]
         ELSE AddLpvars(h, r.lpvars, Tail(targets))

\* for c in self._conststore: prob += self._convert_constraint(c)
RECURSIVE LowerAll(_, _, _, _)
LowerAll(h, lp, pr, cs) ==
    IF cs = <<>> THEN [lpvars |-> lp, prob |-> pr, raised |-> FALSE]
    ELSE LET r == convert_constraint(h, lp, Head(cs)) IN
         IF r.raised THEN [lpvars |-> r.lpvars, prob |-> pr, raised |-> TRUE]
         ELSE LowerAll(h, r.lpvars, Append(pr, r.value), Tail(cs))

\* prob = pulp.LpProblem(): a new, empty problem for every solve
LpProblemKept == prob
LpProblem == <<>>

\* self._lpvars = {}
LpvarsKept == lpvars
LpvarsReset == <<>>

\* variables = self._variables.values() when the argument is None
SolveTargets(vs, arg) ==
    IF arg = None THEN [i \in 1..Len(vs) |-> VarRef(vs[i])] ELSE arg.items

\* The collections the caller passes to solve: omitted, empty, a subset, the
\* second object named "a", a superset in another order
SolveArgs ==
    { None,
      [kind |-> "list", items |-> <<>>],
      [kind |-> "list", items |-> <<VarRef(2)>>],
      [kind |-> "list", items |-> <<VarRef(3)>>],
      [kind |-> "list", items |-> <<VarRef(2), VarRef(1)>>],
      [kind |-> "list", items |-> <<VarRef(2), VarRef(4), VarRef(1)>>] }

\* SolverPulp.solve: the backend variables of the targets, then every
\* stored constraint lowered into the problem, then the backend call.  A
\* TypeError leaves self._lpvars as far as it was filled.
Solve ==
    /\ ncalls < MaxCalls
    /\ \E arg \in SolveArgs :
         LET a == AddLpvars(heap, LpvarsReset, SolveTargets(variables, arg))
             b == LowerAll(heap, a.lpvars, LpProblem, conststore) IN
         /\ lastCall' = [op |-> "solve", c |-> arg]
         /\ prevCall' = lastCall
         /\ IF a.raised
            THEN lpvars' = a.lpvars /\ prob' = LpProblem /\ ret' = "TypeError"
            ELSE /\ lpvars' = b.lpvars /\ prob' = b.prob
                 /\ ret' = IF b.raised THEN "TypeError" ELSE "ok"
    /\ ncalls' = ncalls + 1
    /\ UNCHANGED <<conststore, variables, heapVars, arrVars, threadVars, exprVars>>

Init == /\ heap = Pool /\ varidx = 0 /\ handed = <<>>
        /\ ArrInit /\ SolverInit /\ ThreadInit /\ ExprInit
Next == AddConstraint \/ Solve
Spec == Init /\ [][Next]_vars

-----------------------------------------------------------------------------
(* Properties of the Solver *)

\* The Variable objects a constraint argument reaches
Reached(c) ==
    IF c.kind = "array"
    THEN UNION {{Leaves(c.flat[p])[i] : i \in 1..Len(Leaves(c.flat[p]))} : p \in 1..Len(c.flat)}
    ELSE {Leaves(c)[i] : i \in 1..Len(Leaves(c))}

RegisteredObjects(vs) == {VarRef(vs[i]) : i \in 1..Len(vs)}

\* c reaches a Variable whose name belongs, when it is reached, to another
\* object: one registered before the call or one reached by c itself
Conflict(h, vs, c) ==
    \E v \in Reached(c) : \E w \in RegisteredObjects(vs) \cup Reached(c) :
        w.id # v.id /\ h[w.id].name = h[v.id].name

AddStep   == ncalls' = ncalls + 1 /\ lastCall'.op = "add"

\* C1: add_constraint(c) raises the duplicate-name error exactly when c
\* reaches a Variable whose name is registered to a different object; the
\* same object reached again raises nothing.
C1_DuplicateName ==
    [][AddStep => ((ret' = "ValueError") <=> Conflict(heap, variables, lastCall'.c))]_vars

C1_Witness ==
    /\ lastCall = [op |-> "add", c |-> eq(VarRef(3), VarRef(2))]
    /\ ret = "ValueError"
    /\ prevCall = [op |-> "add", c |-> eq(add(VarRef(1), VarRef(1)), VarRef(2))]
    /\ conststore = <<eq(VarRef(1), VarRef(2)), eq(add(VarRef(1), VarRef(1)), VarRef(2))>>

\* C2: add_constraint(None) and add_constraint(k) for an integer k, plain or
\* numpy, return normally and change neither the constraint list nor the map.
C2_NoOp ==
    [][(AddStep /\ (lastCall'.c = None \/ lastCall'.c.kind = "int"))
          => (ret' = "ok" /\ conststore' = conststore /\ variables' = variables)]_vars

\* Names of a sequence of Variable objects, of the map, of the backend variables
NamesOfRefs(h, refs) == {h[refs[i].id].name : i \in 1..Len(refs)}
RegisteredNames(h, vs) == {h[vs[i]].name : i \in 1..Len(vs)}
LpNames(lp) == {lp[i].name : i \in 1..Len(lp)}
ReachedNames(h, cs) == UNION {{h[v.id].name : v \in Reached(cs[i])} : i \in 1..Len(cs)}
OnePerName(lp) == \A i, j \in 1..Len(lp) : i # j => lp[i].name # lp[j].name

\* C3 as stated: after a solve that returned, the backend variables are one
\* per name of the supplied variables, or of the registered ones when the
\* argument is omitted.
C3_ExactlySupplied ==
    (lastCall.op = "solve" /\ ret = "ok")
        => /\ OnePerName(lpvars)
           /\ LpNames(lpvars) = IF lastCall.c = None
                                THEN RegisteredNames(heap, variables)
                                ELSE NamesOfRefs(heap, lastCall.c.items)

\* C3 amended: after a solve that returned, the backend variables are one
\* per name of the supplied variables and of the Variables the stored
\* constraints reach; with the argument omitted these are exactly the
\* registered names.  A solve that raised created no other variables.
C3_SuppliedAndReached ==
    lastCall.op = "solve"
        => LET target == IF lastCall.c = None
                         THEN RegisteredNames(heap, variables)
                         ELSE NamesOfRefs(heap, lastCall.c.items)
               all == target \cup ReachedNames(heap, conststore) IN
           /\ OnePerName(lpvars)
           /\ LpNames(lpvars) \subseteq all
           /\ ret = "ok" => LpNames(lpvars) = all
           /\ (ret = "ok" /\ lastCall.c = None)
                 => LpNames(lpvars) = RegisteredNames(heap, variables)

C3_Witness ==
    /\ lastCall = [op |-> "solve", c |-> [kind |-> "list", items |-> <<VarRef(2)>>]]
    /\ ret = "ok"
    /\ conststore = <<eq(VarRef(1), VarRef(2))>>
    /\ LpNames(lpvars) = {"a", "b"}

\* C4: a solve() directly after a solve(), no call in between, hands the
\* backend the same variables with the same bounds and the same lowered
\* constraints in the same order, one per stored constraint, ends the same
\* way, and leaves the constraint list and the map as they were.
C4_SolveTwice ==
    [][(/\ ncalls' = ncalls + 1
        /\ lastCall = [op |-> "solve", c |-> None]
        /\ lastCall' = [op |-> "solve", c |-> None])
          => /\ lpvars' = lpvars /\ prob' = prob /\ ret' = ret
             /\ conststore' = conststore /\ variables' = variables
             /\ ret' = "ok" => Len(prob') = Len(conststore)]_vars

C4_Witness ==
    /\ lastCall = [op |-> "solve", c |-> None]
    /\ prevCall = [op |-> "solve", c |-> None]
    /\ ret = "ok"
    /\ conststore = <<eq(add(VarRef(1), VarRef(2)), PyInt(1))>>
    /\ Len(prob) = 1 /\ LpNames(lpvars) = {"a", "b"}

\* C10: every Variable reachable from a stored constraint is the object
\* registered under its name, the map holds one object per name, and a
\* call that failed with the duplicate-name error did not append the
\* constraint it failed on: the list is as before, or, for a container,
\* extended by the elements before the failing one.
StoreRegistered ==
    /\ \A i \in 1..Len(conststore) : \A v \in Reached(conststore[i]) :
          /\ HasName(heap, variables, heap[v.id].name)
          /\ Lookup(heap, variables, heap[v.id].name) = v.id
    /\ \A i, j \in 1..Len(variables) :
          i # j => heap[variables[i]].name # heap[variables[j]].name

FailedAddKeepsStore ==
    (AddStep /\ ret' = "ValueError")
        => LET c == lastCall'.c IN
           IF c.kind = "array"
           THEN \E n \in 0..(Len(c.flat) - 1) :
                   /\ conststore' = conststore \o SubSeq(c.flat, 1, n)
                   /\ Conflict(heap, variables', c.flat[n + 1])
           ELSE conststore' = conststore

C10_StoreRegistered == [] StoreRegistered /\ [][FailedAddKeepsStore]_vars

C10_Witness ==
    /\ ret = "ValueError"
    /\ lastCall.op = "add" /\ lastCall.c.kind = "array"
    /\ lastCall.c.flat = <<VarRef(2), VarRef(3), VarRef(1)>>
    /\ conststore = <<VarRef(1), VarRef(2), VarRef(2)>>

====
